---------------------------- MODULE Spec2Model ----------------------------
(***************************************************************************)
(* A model of bgspace/core.py: the SpaceConvention class, which describes  *)
(* the anatomical orientation of a 3-D stack and derives the transposition *)
(* and the flips that reorient a stack from one convention to another.     *)
(*                                                                         *)
(* Python values are encoded as follows.                                   *)
(*   str            a sequence of one-character strings                    *)
(*   tuple / list   a sequence; Python's 0-based index i is At(t, i)       *)
(*   None           the record None                                        *)
(*   int            PyInt(n) where an int and None may meet (the shape)    *)
(*   float          Num(n) or NaN (the entries of the numpy matrix)        *)
(*   numpy array    [shape, data], data a function of 0-based index tuples *)
(*   a call         Return(v), or Raise(exc, line) when it raises          *)
(***************************************************************************)
EXTENDS Integers, Sequences, FiniteSets, TLC

VARIABLES
    calls,   \* the constructor calls made so far: <<[origin, outcome]>>
    S,       \* the source convention
    T,       \* the target convention
    U,       \* a third convention
    stack,   \* the stack handed to map_stack_to
    pts,     \* the points handed to map_points_to
    ret      \* what each call made so far returned

vars == <<calls, S, T, U, stack, pts, ret>>

----------------------------------------------------------------------------
(* Bounds of the model *)

\* longest origin specification tried by the constructor
MaxLen == 4

\* largest extent of an axis of a stack
MaxExtent == 2

----------------------------------------------------------------------------
(* Python values *)

None == [tag |-> "None"]

PyInt(n) == [tag |-> "int", v |-> n]

Num(n) == [tag |-> "float", v |-> n]

NaN == [tag |-> "float", nan |-> TRUE]

Return(v) == [tag |-> "return", value |-> v]

Raise(exc, line) == [tag |-> "raise", exc |-> exc, line |-> line]

\* t[i] for a Python tuple, list or str
At(t, i) == t[i + 1]

\* the set of the elements of a sequence: set(t)
Range(t) == {t[i] : i \in DOMAIN t}

\* t.index(x): the first 0-based position of x (x is in t whenever the
\* conventions have a full orientation)
Index(t, x) == (CHOOSE i \in DOMAIN t : t[i] = x /\ \A j \in 1..(i - 1) : t[j] # x) - 1

\* str.lower() on one character
ToLower == [c \in {"P", "A", "S", "I", "L", "R", "X"} |->
              CASE c = "P" -> "p" [] c = "A" -> "a" [] c = "S" -> "s"
                [] c = "I" -> "i" [] c = "L" -> "l" [] c = "R" -> "r"
                [] c = "X" -> "x"]

Lower(c) == IF c \in DOMAIN ToLower THEN ToLower[c] ELSE c

\* iterating over the origin argument: a str yields its characters, each a
\* one-character str; a list or tuple yields its items
Iter(origin_arg) ==
    IF origin_arg.kind = "str"
    THEN [i \in DOMAIN origin_arg.val |-> <<origin_arg.val[i]>>]
    ELSE origin_arg.val

----------------------------------------------------------------------------
(* class SpaceConvention: the class attributes *)

\* a dict keeps its insertion order: a sequence of its items
space_specs ==
    << [k |-> "sagittal", val |-> {"p", "a"}],
       [k |-> "vertical", val |-> {"s", "i"}],
       [k |-> "frontal",  val |-> {"l", "r"}] >>

lims_labels ==
    [c \in {"p", "a", "s", "i", "l", "r"} |->
        CASE c = "p" -> "Posterior" [] c = "a" -> "Anterior"
          [] c = "s" -> "Superior"  [] c = "i" -> "Inferior"
          [] c = "l" -> "Left"      [] c = "r" -> "Right"]

\* the defaults of __init__
DefaultShape == <<None, None, None>>

DefaultResolution == <<1, 1, 1>>

----------------------------------------------------------------------------
(* ordered_list_from_set and __init__ *)

\* first + next(iter(input_set - {first}))
ordered_list_from_set(input_set, first) ==
    <<first>> \o <<CHOOSE x \in input_set \ {first} : TRUE>>

\* the inner loop of __init__ for one lim: one axis description for each
\* item of space_specs whose set holds lim
RECURSIVE AxsOfLim(_, _)
AxsOfLim(lim, n) ==
    IF n = 0 THEN <<>>
    ELSE AxsOfLim(lim, n - 1) \o
         ( IF lim \in space_specs[n].val
           THEN <<ordered_list_from_set(space_specs[n].val, lim)>>
           ELSE <<>> )

\* the outer loop of __init__ over the first n lims
RECURSIVE AxsDescription(_, _)
AxsDescription(lims, n) ==
    IF n = 0 THEN <<>>
    ELSE AxsDescription(lims, n - 1) \o AxsOfLim(lims[n], Len(space_specs))

\* origin = [o[0].lower() for o in origin]
LowerInitials(origin_arg) ==
    LET it == Iter(origin_arg) IN [i \in DOMAIN it |-> Lower(At(it[i], 0))]

\* __init__ without the assertion of line 64 on the letters
SpaceConvention_unchecked_letters(origin_arg, shape, resolution) ==
    LET lims == LowerInitials(origin_arg)
        axs_description == AxsDescription(lims, Len(lims))
    IN  IF Len(axs_description) # 3
        THEN Raise("AssertionError", 82)
        ELSE IF Len(axs_description) # Cardinality(Range(axs_description))
        THEN Raise("AssertionError", 83)
        ELSE Return([axes_description |-> axs_description,
                     shape |-> shape,
                     resolution |-> resolution])

\* SpaceConvention(origin, shape, resolution): the object, or the assertion
\* that fails
SpaceConvention(origin_arg, shape, resolution) ==
    LET lims == LowerInitials(origin_arg)
        axs_description == AxsDescription(lims, Len(lims))
    IN  IF ~ (\A i \in DOMAIN lims : lims[i] \in DOMAIN lims_labels)
        THEN Raise("AssertionError", 64)
        ELSE IF Len(axs_description) # 3
        THEN Raise("AssertionError", 82)
        ELSE IF Len(axs_description) # Cardinality(Range(axs_description))
        THEN Raise("AssertionError", 83)
        ELSE Return([axes_description |-> axs_description,
                     shape |-> shape,
                     resolution |-> resolution])

----------------------------------------------------------------------------
(* the properties axes_order and origin *)

RECURSIVE KeysOfLim(_, _)
KeysOfLim(c, n) ==
    IF n = 0 THEN <<>>
    ELSE KeysOfLim(c, n - 1) \o
         (IF c \in space_specs[n].val THEN <<space_specs[n].k>> ELSE <<>>)

RECURSIVE AxesOrderUpTo(_, _)
AxesOrderUpTo(descr, n) ==
    IF n = 0 THEN <<>>
    ELSE AxesOrderUpTo(descr, n - 1) \o KeysOfLim(At(descr[n], 0), Len(space_specs))

axes_order(self) == AxesOrderUpTo(self.axes_description, Len(self.axes_description))

origin(self) == [i \in DOMAIN self.axes_description |-> At(self.axes_description[i], 0)]

----------------------------------------------------------------------------
(* map_to *)

\* map_to with the roles of self and target exchanged in the search for order
map_to_inverted(self, target) ==
    LET self_order == axes_order(self)
        target_order == axes_order(target)
        order == [si \in DOMAIN self_order |-> Index(target_order, self_order[si])]
        flips == [ti \in DOMAIN order |->
                    At(self.axes_description, order[ti]) # target.axes_description[ti]]
    IN  <<order, flips>>

\* map_to with the flips read at the target's position, before the reordering
map_to_unordered_flips(self, target) ==
    LET self_order == axes_order(self)
        target_order == axes_order(target)
        order == [ti \in DOMAIN target_order |-> Index(self_order, target_order[ti])]
        flips == [ti \in DOMAIN order |->
                    self.axes_description[ti] # target.axes_description[ti]]
    IN  <<order, flips>>

\* map_to looking the target's axes up in the key order of space_specs rather
\* than in self's own axes order
map_to_spec_order(self, target) ==
    LET self_order == [n \in DOMAIN space_specs |-> space_specs[n].k]
        target_order == axes_order(target)
        order == [ti \in DOMAIN target_order |-> Index(self_order, target_order[ti])]
        flips == [ti \in DOMAIN order |->
                    At(self.axes_description, order[ti]) # target.axes_description[ti]]
    IN  <<order, flips>>

\* (order, flips): order[ti] is where self holds the axis that target holds at
\* ti, and flips[ti] tells whether the two descriptions of that axis differ
map_to(self, target) ==
    LET self_order == axes_order(self)
        target_order == axes_order(target)
        order == [ti \in DOMAIN target_order |-> Index(self_order, target_order[ti])]
        flips == [ti \in DOMAIN order |->
                    At(self.axes_description, order[ti]) # target.axes_description[ti]]
    IN  <<order, flips>>

----------------------------------------------------------------------------
(* numpy: transpose and flip on a 3-D array, and map_stack_to *)

\* the index tuples of a 3-D array of the given shape
Indices(shape) == (0..(shape[1] - 1)) \X (0..(shape[2] - 1)) \X (0..(shape[3] - 1))

\* np.transpose(a, axes): axis k of the result is axis axes[k] of a
transpose(a, axes) ==
    LET shape == [k \in DOMAIN axes |-> At(a.shape, axes[k])]
        from == [m \in DOMAIN a.shape |-> CHOOSE k \in DOMAIN axes : axes[k] = m - 1]
    IN  [shape |-> shape,
         data |-> [idx \in Indices(shape) |->
                     a.data[[m \in DOMAIN a.shape |-> idx[from[m]]]]]]

\* np.flip(a, axis): the order of the elements is reversed along each axis in axis
flip(a, axis) ==
    LET flipped == Range(axis)
    IN  [shape |-> a.shape,
         data |-> [idx \in Indices(a.shape) |->
                     a.data[[k \in DOMAIN a.shape |->
                               IF (k - 1) \in flipped
                               THEN a.shape[k] - 1 - idx[k]
                               ELSE idx[k]]]]]

\* [i for i, f in enumerate(flips) if f]
RECURSIVE FlippedAxes(_, _)
FlippedAxes(flips, n) ==
    IF n = 0 THEN <<>>
    ELSE FlippedAxes(flips, n - 1) \o (IF flips[n] THEN <<n - 1>> ELSE <<>>)

\* stack.copy(): an array with the same shape and elements
Copy(a) == [shape |-> a.shape, data |-> a.data]

\* map_stack_to flipping the axes of the stack before they are transposed
map_stack_to_flip_first(self, a, target, copy) ==
    LET of == map_to(self, target)
        order == of[1]
        flips == of[2]
        copied == IF copy THEN Copy(a) ELSE a
        flipped == flip(copied, FlippedAxes(flips, Len(flips)))
    IN  transpose(flipped, order)

map_stack_to(self, a, target, copy) ==
    LET of == map_to(self, target)
        order == of[1]
        flips == of[2]
        copied == IF copy THEN Copy(a) ELSE a
        transposed == transpose(copied, order)
    IN  flip(transposed, FlippedAxes(flips, Len(flips)))

----------------------------------------------------------------------------
(* transformation_matrix_to and map_points_to *)

\* np.zeros((n, n))
Zeros(n) == [rc \in (0..(n - 1)) \X (0..(n - 1)) |-> Num(0)]

\* the float that numpy stores for a Python object assigned to an element of
\* a float array: the number for an int, nan for None
AsFloat(x) == IF x = None THEN NaN ELSE Num(x.v)

\* mat[r, c] = x, r and c counted from 0 (-1 is the last)
SetItem(mat, r, c, x) == [mat EXCEPT ![<<r, c>>] = AsFloat(x)]

\* the first n rounds of the loop over enumerate(zip(order, flips))
RECURSIVE MatLoop(_, _, _, _, _)
MatLoop(mat, self, order, flips, n) ==
    IF n = 0 THEN mat
    ELSE LET before == MatLoop(mat, self, order, flips, n - 1)
             ai == n - 1
             bi == At(order, ai)
             f == At(flips, ai)
             signed == SetItem(before, ai, bi, IF f THEN PyInt(-1) ELSE PyInt(1))
         IN  SetItem(signed, ai, 3, IF f THEN At(self.shape, ai) ELSE PyInt(0))

transformation_matrix_to(self, target) ==
    LET of == map_to(self, target)
        order == of[1]
        flips == of[2]
        transformation_mat == SetItem(Zeros(4), 3, 3, PyInt(1))
    IN  MatLoop(transformation_mat, self, order, flips, Len(order))

\* the body of map_points_to is its docstring alone: it returns None
map_points_to(self, points, target) == None

----------------------------------------------------------------------------
(* The origin specifications the constructor is tried on *)

\* the initials tried: the six anatomical limits and one unknown letter
Letters == {"p", "a", "s", "i", "l", "r", "x"}

ToUpper == [c \in Letters |->
              CASE c = "p" -> "P" [] c = "a" -> "A" [] c = "s" -> "S"
                [] c = "i" -> "I" [] c = "l" -> "L" [] c = "r" -> "R"
                [] c = "x" -> "X"]

\* a word for each initial; the later characters include other limits' letters
Words == [c \in Letters |->
            CASE c = "p" -> <<"p", "o", "s", "t", "e", "r", "i", "o", "r">>
              [] c = "a" -> <<"a", "n", "t", "e", "r", "i", "o", "r">>
              [] c = "s" -> <<"s", "u", "p", "e", "r", "i", "o", "r">>
              [] c = "i" -> <<"i", "n", "f", "e", "r", "i", "o", "r">>
              [] c = "l" -> <<"l", "e", "f", "t">>
              [] c = "r" -> <<"r", "i", "g", "h", "t">>
              [] c = "x" -> <<"x", "r", "a", "y">>]

Capitalized(w) == [i \in DOMAIN w |-> IF i = 1 THEN ToUpper[w[i]] ELSE w[i]]

\* the ways a sequence of initials is written as a constructor argument
Styles == {"asl", "ASL", "Asl", "[a,s,l]", "[anterior,...]", "[Anterior,...]"}

Spell(style, letters) ==
    CASE style = "asl" -> [kind |-> "str", val |-> letters]
      [] style = "ASL" -> [kind |-> "str", val |-> [i \in DOMAIN letters |-> ToUpper[letters[i]]]]
      [] style = "Asl" -> [kind |-> "str", val |-> Capitalized(letters)]
      [] style = "[a,s,l]" -> [kind |-> "list", val |-> [i \in DOMAIN letters |-> <<letters[i]>>]]
      [] style = "[anterior,...]" -> [kind |-> "list", val |-> [i \in DOMAIN letters |-> Words[letters[i]]]]
      [] style = "[Anterior,...]" ->
            [kind |-> "list", val |-> [i \in DOMAIN letters |-> Capitalized(Words[letters[i]])]]

LetterSeqs == UNION {[1..n -> Letters] : n \in 0..MaxLen}

Origins == {Spell(st, ls) : st \in Styles, ls \in LetterSeqs}

\* the other spellings of the specification origin_arg: the same initials up to
\* case, in every style
Respellings(origin_arg) == {Spell(st, LowerInitials(origin_arg)) : st \in Styles}

----------------------------------------------------------------------------
(* Construction: a client constructs a convention, then constructs it again *)
(* from another spelling of the same specification                          *)

NoStack == [shape |-> <<>>, data |-> <<>>]

NoRet == [tag |-> "not called"]

Idle == /\ S = None /\ T = None /\ U = None
        /\ stack = NoStack /\ pts = <<>> /\ ret = <<>>

InitConstruct == calls = <<>> /\ Idle

Construct ==
    /\ calls = <<>>
    /\ \E o \in Origins :
          calls' = <<[origin |-> o,
                      outcome |-> SpaceConvention(o, DefaultShape, DefaultResolution)]>>
    /\ UNCHANGED <<S, T, U, stack, pts, ret>>

ConstructAgain ==
    /\ Len(calls) = 1
    /\ calls[1].outcome.tag = "return"
    /\ \E o \in Respellings(calls[1].origin) :
          calls' = Append(calls,
                     [origin |-> o,
                      outcome |-> SpaceConvention(o, DefaultShape, DefaultResolution)])
    /\ UNCHANGED <<S, T, U, stack, pts, ret>>

NextConstruct ==
    \/ Construct
    \/ ConstructAgain

SpecConstruct == InitConstruct /\ [][NextConstruct]_vars

----------------------------------------------------------------------------
(* Conventions with a full orientation: one axis of each of the three items *)
(* of space_specs. The methods below are followed on these conventions: on  *)
(* a convention that repeats an item, the index lookup of map_to fails or   *)
(* finds the same axis twice.                                               *)

FullOrientation(self) ==
    /\ Len(self.axes_description) = 3
    /\ Range(axes_order(self)) = {space_specs[n].k : n \in DOMAIN space_specs}

Constructed(shapes) ==
    {SpaceConvention(Spell("asl", ls), sh, DefaultResolution) :
        ls \in [1..3 -> Letters], sh \in shapes}

ValidConventions(shapes) ==
    {c.value : c \in {r \in Constructed(shapes) : r.tag = "return" /\ FullOrientation(r.value)}}

\* the conventions constructed without a shape
Conventions == ValidConventions({DefaultShape})

----------------------------------------------------------------------------
(* Matching: a client holding three conventions asks for the mapping from   *)
(* S to T, from T to U and from S to U                                      *)

InitMapTo ==
    /\ calls = <<>> /\ stack = NoStack /\ pts = <<>>
    /\ S \in Conventions
    /\ T \in Conventions
    /\ U \in Conventions
    /\ ret = [st |-> NoRet, tu |-> NoRet, su |-> NoRet]

MapToST ==
    /\ ret.st = NoRet
    /\ ret' = [ret EXCEPT !.st = Return(map_to(S, T))]
    /\ UNCHANGED <<calls, S, T, U, stack, pts>>

MapToTU ==
    /\ ret.st # NoRet /\ ret.tu = NoRet
    /\ ret' = [ret EXCEPT !.tu = Return(map_to(T, U))]
    /\ UNCHANGED <<calls, S, T, U, stack, pts>>

MapToSU ==
    /\ ret.tu # NoRet /\ ret.su = NoRet
    /\ ret' = [ret EXCEPT !.su = Return(map_to(S, U))]
    /\ UNCHANGED <<calls, S, T, U, stack, pts>>

NextMapTo == MapToST \/ MapToTU \/ MapToSU

SpecMapTo == InitMapTo /\ [][NextMapTo]_vars

----------------------------------------------------------------------------
(* The vocabulary of the claims: the families and the opposite limits *)

FamilyOf(c) ==
    CASE c \in {"a", "p"} -> "sagittal"
      [] c \in {"s", "i"} -> "vertical"
      [] c \in {"l", "r"} -> "frontal"

Opposite(c) ==
    CASE c = "a" -> "p" [] c = "p" -> "a"
      [] c = "s" -> "i" [] c = "i" -> "s"
      [] c = "l" -> "r" [] c = "r" -> "l"

\* the convention written as three lowercase initials
Conv(ls) == SpaceConvention(Spell("asl", ls), DefaultShape, DefaultResolution).value

ASL == Conv(<<"a", "s", "l">>)

PSL == Conv(<<"p", "s", "l">>)

SAL == Conv(<<"s", "a", "l">>)

XOR(a, b) == (a /\ ~b) \/ (~a /\ b)

----------------------------------------------------------------------------
(* Claims about map_to, under SpecMapTo *)

\* C1: once S.map_to(T) has returned (order, flips), order is a permutation of
\* {0,1,2}, order[i] is the index in S of the axis of the family of T's axis i,
\* and flips[i] holds exactly when the two-letter code of S's axis order[i]
\* differs from that of T's axis i; ASL->PSL gives ((0,1,2), (True,False,False))
\* and ASL->SAL gives ((1,0,2), (False,False,False)).
C1_MapToOrderAndFlips ==
    ret.st # NoRet =>
        LET order == ret.st.value[1]
            flips == ret.st.value[2]
        IN  /\ Len(order) = 3 /\ Len(flips) = 3
            /\ Range(order) = {0, 1, 2}
            /\ \A i \in 0..2 :
                 /\ FamilyOf(At(At(S.axes_description, At(order, i)), 0))
                      = FamilyOf(At(At(T.axes_description, i), 0))
                 /\ At(flips, i) <=>
                      (At(S.axes_description, At(order, i)) # At(T.axes_description, i))
            /\ (S = ASL /\ T = PSL) => ret.st.value = << <<0, 1, 2>>, <<TRUE, FALSE, FALSE>> >>
            /\ (S = ASL /\ T = SAL) => ret.st.value = << <<1, 0, 2>>, <<FALSE, FALSE, FALSE>> >>

\* a mapping that both reorders and flips has been computed
C1_Witness ==
    /\ ret.st # NoRet
    /\ ret.st.value[1] = <<2, 0, 1>>
    /\ ret.st.value[2] = <<TRUE, FALSE, TRUE>>

\* C4: S.map_to(S) returns order (0,1,2) and no flip.
C4_MapToSelfIsIdentity ==
    (ret.st # NoRet /\ T = S) =>
        ret.st.value = << <<0, 1, 2>>, <<FALSE, FALSE, FALSE>> >>

\* a convention whose axes are not in the order of space_specs has been mapped
\* to itself
C4_Witness ==
    /\ ret.st # NoRet /\ T = S
    /\ S.axes_description = << <<"r", "l">>, <<"i", "s">>, <<"p", "a">> >>

\* C10: with (o1,f1) = S.map_to(T), (o2,f2) = T.map_to(U), (o3,f3) = S.map_to(U):
\* o3[i] = o1[o2[i]] and f3[i] = f1[o2[i]] XOR f2[i] for every i.
C10_MapToComposes ==
    ret.su # NoRet =>
        LET o1 == ret.st.value[1]  f1 == ret.st.value[2]
            o2 == ret.tu.value[1]  f2 == ret.tu.value[2]
            o3 == ret.su.value[1]  f3 == ret.su.value[2]
        IN  \A i \in 0..2 :
              /\ At(o3, i) = At(o1, At(o2, i))
              /\ At(f3, i) = XOR(At(f1, At(o2, i)), At(f2, i))

\* the three mappings have been computed, the two steps are different
\* non-trivial permutations, and both steps flip
C10_Witness ==
    /\ ret.su # NoRet
    /\ ret.st.value[1] = <<1, 2, 0>>
    /\ ret.tu.value[1] = <<0, 2, 1>>
    /\ TRUE \in Range(ret.st.value[2])
    /\ TRUE \in Range(ret.tu.value[2])

----------------------------------------------------------------------------
(* Claims about the constructor, under SpecConstruct *)

\* The specification's names for the constructor's failures: the code raises
\* AssertionError at line 64 for an unknown letter, and at lines 82 and 83 for
\* an orientation that is not full.
InvalidDirectionError == Raise("AssertionError", 64)

IncompleteOrientationError == {Raise("AssertionError", 82), Raise("AssertionError", 83)}

\* the first character of each specifier, as written
Initials(origin_arg) == LET it == Iter(origin_arg) IN [i \in DOMAIN it |-> At(it[i], 0)]

\* a first character whose lowercase is one of p, a, s, i, l, r
KnownInitial(c) == c \in {"p", "a", "s", "i", "l", "r", "P", "A", "S", "I", "L", "R"}

C6_DuplicateOrMissingFamilyRejected ==
    \A n \in DOMAIN calls :
        LET ini == Initials(calls[n].origin) IN
        ( /\ \A i \in DOMAIN ini : KnownInitial(ini[i])
          /\ \/ Len(ini) < 3
             \/ \E i, j \in DOMAIN ini :
                  i # j /\ FamilyOf(Lower(ini[i])) = FamilyOf(Lower(ini[j])) )
            => calls[n].outcome \in IncompleteOrientationError

\* C9: a constructed object depends only on the lowercased first characters
\* of its 3 specifiers: axes[i] is that character followed by the other letter
\* of its family, the three families are covered exactly once, origin[i] is
\* that character, and two calls whose specifiers agree on the lowercased
\* first characters give the same axes, axes_order and origin.
C9_AxesFromLowercasedInitials ==
    /\ \A n \in DOMAIN calls :
         calls[n].outcome.tag = "return" =>
            LET ini == Initials(calls[n].origin)
                self == calls[n].outcome.value
            IN  /\ Len(ini) = 3
                /\ Len(self.axes_description) = 3
                /\ \A i \in 1..3 :
                     /\ self.axes_description[i] = <<Lower(ini[i]), Opposite(Lower(ini[i]))>>
                     /\ origin(self)[i] = Lower(ini[i])
                     /\ axes_order(self)[i] = FamilyOf(Lower(ini[i]))
                /\ {FamilyOf(self.axes_description[i][1]) : i \in 1..3}
                     = {"sagittal", "vertical", "frontal"}
    /\ \A m, n \in DOMAIN calls :
         ( /\ calls[m].outcome.tag = "return"
           /\ Len(Initials(calls[m].origin)) = Len(Initials(calls[n].origin))
           /\ \A i \in DOMAIN Initials(calls[m].origin) :
                Lower(Initials(calls[m].origin)[i]) = Lower(Initials(calls[n].origin)[i]) )
            => /\ calls[n].outcome.tag = "return"
               /\ calls[n].outcome.value.axes_description = calls[m].outcome.value.axes_description
               /\ axes_order(calls[n].outcome.value) = axes_order(calls[m].outcome.value)
               /\ origin(calls[n].outcome.value) = origin(calls[m].outcome.value)

----------------------------------------------------------------------------
(* Reorienting a stack: a client maps a stack from S to T and the result    *)
(* back from T to S                                                         *)

Shapes == [1..3 -> 1..MaxExtent]

\* the stack of the given shape whose element at each index is that index:
\* no two elements are equal, so that the place of each can be followed
Labelled(shape) == [shape |-> shape, data |-> [idx \in Indices(shape) |-> idx]]

InitStack ==
    /\ calls = <<>> /\ U = None /\ pts = <<>>
    /\ S \in Conventions
    /\ T \in Conventions
    /\ stack \in {Labelled(sh) : sh \in Shapes}
    /\ ret = [there |-> NoRet, back |-> NoRet]

MapStackThere ==
    /\ ret.there = NoRet
    /\ \E copy \in BOOLEAN :
         ret' = [ret EXCEPT !.there = Return(map_stack_to(S, stack, T, copy))]
    /\ UNCHANGED <<calls, S, T, U, stack, pts>>

MapStackBack ==
    /\ ret.there # NoRet /\ ret.back = NoRet
    /\ \E copy \in BOOLEAN :
         ret' = [ret EXCEPT !.back = Return(map_stack_to(T, ret.there.value, S, copy))]
    /\ UNCHANGED <<calls, S, T, U, stack, pts>>

NextStack == MapStackThere \/ MapStackBack

SpecStack == InitStack /\ [][NextStack]_vars

----------------------------------------------------------------------------
(* Claims about map_stack_to, under SpecStack *)

\* C3: S.map_stack_to(arr, T) followed by T.map_stack_to(result, S) gives an
\* array with the shape of arr and the element of arr at every index.
C3_MapStackRoundTrip ==
    ret.back # NoRet =>
        /\ ret.back.value.shape = stack.shape
        /\ \A idx \in Indices(stack.shape) : ret.back.value.data[idx] = stack.data[idx]

\* a stack with unequal extents has gone through a mapping that moves every
\* axis and flips, and has come back
C3_Witness ==
    /\ ret.back # NoRet
    /\ stack.shape = <<1, 2, 2>>
    /\ map_to(S, T)[1] = <<1, 2, 0>>
    /\ map_to(S, T)[2] = <<TRUE, FALSE, TRUE>>
    /\ ret.there.value.shape = <<2, 2, 1>>
    /\ ret.there.value.data # stack.data

----------------------------------------------------------------------------
(* Transforming: a client holding a source S with a shape and a target T    *)
(* asks for the matrix from S to T, maps a stack of the shape of S, and     *)
(* maps a point of the stack there and back                                 *)

\* the shape arguments: each extent is None or an int
ShapeArgs == [1..3 -> {None} \cup {PyInt(n) : n \in 1..MaxExtent}]

\* the conventions constructed with a shape argument
ShapedConventions == ValidConventions(ShapeArgs)

Init ==
    /\ calls = <<>> /\ U = None
    /\ S \in ShapedConventions
    /\ T \in Conventions
    /\ stack = NoStack
    /\ pts = <<>>
    /\ ret = [mat |-> NoRet, stack |-> NoRet, pts |-> NoRet, pts_back |-> NoRet]

TransformationMatrixTo ==
    /\ ret.mat = NoRet
    /\ ret' = [ret EXCEPT !.mat = Return(transformation_matrix_to(S, T))]
    /\ UNCHANGED <<calls, S, T, U, stack, pts>>

MapStackTo ==
    /\ ret.mat # NoRet /\ ret.stack = NoRet
    /\ \A k \in 1..3 : S.shape[k] # None
    /\ stack' = Labelled([k \in 1..3 |-> S.shape[k].v])
    /\ \E copy \in BOOLEAN :
         ret' = [ret EXCEPT !.stack = Return(map_stack_to(S, stack', T, copy))]
    /\ UNCHANGED <<calls, S, T, U, pts>>

MapPointsTo ==
    /\ ret.stack # NoRet /\ ret.pts = NoRet
    /\ \E p \in Indices(stack.shape) :
         /\ pts' = <<p>>
         /\ ret' = [ret EXCEPT !.pts = Return(map_points_to(S, pts', T))]
    /\ UNCHANGED <<calls, S, T, U, stack>>

MapPointsBack ==
    /\ ret.pts # NoRet /\ ret.pts_back = NoRet
    /\ ret' = [ret EXCEPT !.pts_back = Return(map_points_to(T, ret.pts.value, S))]
    /\ UNCHANGED <<calls, S, T, U, stack, pts>>

Next == TransformationMatrixTo \/ MapStackTo \/ MapPointsTo \/ MapPointsBack

Spec == Init /\ [][Next]_vars

----------------------------------------------------------------------------
(* Claims about the matrix and the points, under Spec *)

\* the index that the matrix sends the index idx to: the first three entries
\* of mat times the column vector (idx, 1)
MatVec(mat, idx) ==
    [a \in 1..3 |->
        mat[<<a - 1, 0>>].v * idx[1] + mat[<<a - 1, 1>>].v * idx[2]
          + mat[<<a - 1, 2>>].v * idx[3] + mat[<<a - 1, 3>>].v]

\* C2: for a source with a full shape, the matrix from S to T sends the index
\* of every element of a stack of that shape to the index at which
\* S.map_stack_to(stack, T) holds that element.
C2_MatrixAgreesWithMapStack ==
    ret.stack # NoRet =>
        \A idx \in Indices(stack.shape) :
            LET to == MatVec(ret.mat.value, idx)
            IN  /\ to \in Indices(ret.stack.value.shape)
                /\ ret.stack.value.data[to] = stack.data[idx]

\* C8: when a flipped axis needs an extent of the source that is None, the
\* call raises and returns no matrix; a returned matrix holds a number other
\* than 0 as the translation of every flipped axis.
C8_MissingShapeRaises ==
    ret.mat # NoRet =>
        LET flips == map_to(S, T)[2] IN
        /\ (\E a \in 0..2 : At(flips, a) /\ At(S.shape, a) = None)
              => ret.mat.tag = "raise"
        /\ ret.mat.tag = "return" =>
              \A a \in 0..2 :
                 At(flips, a) =>
                    /\ ret.mat.value[<<a, 3>>] # NaN
                    /\ ret.mat.value[<<a, 3>>] # Num(0)

\* the point that the mapping from self to target makes of p: coordinate i is
\* coordinate order[i] of p, reflected in the extent of that axis of self
\* when flips[i] holds
MappedPoint(self, target, p) ==
    LET of == map_to(self, target) IN
    [i \in 1..3 |->
        IF of[2][i]
        THEN At(self.shape, of[1][i]).v - 1 - At(p, of[1][i])
        ELSE At(p, of[1][i])]

\* C5: map_points_to returns, for every point, the point permuted as by
\* map_to and reflected as x' = extent - 1 - x on every flipped axis, and
\* mapping the result back from T to S returns the original points.
C5_MapPointsPermutesAndFlips ==
    /\ ret.pts # NoRet =>
          /\ ret.pts.value # None
          /\ ret.pts.value = [n \in DOMAIN pts |-> MappedPoint(S, T, pts[n])]
    /\ ret.pts_back # NoRet =>
          /\ ret.pts_back.value # None
          /\ ret.pts_back.value = pts

=============================================================================
